---- MODULE Spec2Model ----
(***************************************************************************)
(* Inventory stock-ledger and capacity-consistency engine                  *)
(* (src/inventory): Item, Warehouse, StorageBin, StockRecord,              *)
(* StockMovement, InventoryAlert, WarehouseReceipt and the Stock-In /       *)
(* Stock-Out serializers that orchestrate them.                            *)
(*                                                                         *)
(* The database tables are the variables.  Model methods are operators     *)
(* over a record "db" holding all tables; an operator that may raise       *)
(* returns [ok, db, ...] where db is the table state at the point the      *)
(* exception left the method.  transaction.atomic() blocks discard that    *)
(* state on failure; code running in autocommit keeps it.  Python objects  *)
(* that the code holds across statements (the StorageBin fetched by        *)
(* validate(), the StockRecord instance) are explicit records, because     *)
(* the code writes their - possibly stale - fields back to the tables.     *)
(***************************************************************************)
EXTENDS Integers, Sequences, FiniteSets, TLC

\* ---- bounds of the model ------------------------------------------------
NumItems == 2
NumBins == 2
NumUsers == 2
MaxQuantity == 2
MaxCapacity == 4
MaxCalls == 3
NumWorkers == 2
MaxLevel == 10

Items == 1..NumItems
Bins == 1..NumBins
Users == 1..NumUsers
Quantities == 1..MaxQuantity
Capacities == {MaxQuantity, MaxCapacity}
Workers == 1..NumWorkers

\* ---- program constants --------------------------------------------------
None == 0
DefaultWarehouseCapacity == 1000
DefaultWarehouse == "WH-DEFAULT"
MainWarehouse == "WH-MAIN"
NoWarehouse == "null"

VARIABLES
    items,          \* Item table: id -> [reserved_quantity, min_stock_level]
    warehouses,     \* Warehouse table: set of [code, user, capacity]
    bins,           \* StorageBin table: id -> [capacity, current_load, warehouse]
    stock_records,  \* StockRecord table: set of [pk, item, storage_bin, quantity]
    next_pk,        \* StockRecord id sequence
    movements,      \* StockMovement table, in id order
    receipts,       \* WarehouseReceipt table, in id order
    alerts,         \* InventoryAlert table, in id order
    requests,       \* per worker: the request in progress between validate and save
    last,           \* the call that completed last and its outcome
    calls,          \* number of calls made so far
    successes       \* number of Stock-In / Stock-Out calls that returned 201

tables == <<items, warehouses, bins, stock_records, next_pk, movements, receipts, alerts>>
vars == <<items, warehouses, bins, stock_records, next_pk, movements, receipts, alerts, requests, last, calls, successes>>

\* The committed database as one value.
DB ==
    [items |-> items, warehouses |-> warehouses, bins |-> bins,
     stock_records |-> stock_records, next_pk |-> next_pk,
     movements |-> movements, receipts |-> receipts, alerts |-> alerts]

Commit(db) ==
    /\ items' = db.items
    /\ warehouses' = db.warehouses
    /\ bins' = db.bins
    /\ stock_records' = db.stock_records
    /\ next_pk' = db.next_pk
    /\ movements' = db.movements
    /\ receipts' = db.receipts
    /\ alerts' = db.alerts

\* ---- helpers ------------------------------------------------------------
Max(a, b) == IF a >= b THEN a ELSE b

\* Statement sequencing: bind the value of one statement, go on with K.
With(x, K(_)) == K(x)

\* An exception leaving a method: the tables as they are at that point.
Raise(db) == [ok |-> FALSE, db |-> db]

\* Call a method that may raise; go on with K unless it did.
Try(r, K(_)) == IF r.ok THEN K(r) ELSE Raise(r.db)

RECURSIVE SumQuantity(_)
\* Sum('quantity') over a set of StockRecord rows; 0 for the empty set.
SumQuantity(rows) ==
    IF rows = {} THEN 0
    ELSE LET r == CHOOSE x \in rows : TRUE
         IN r.quantity + SumQuantity(rows \ {r})

RecordsOfBin(db, b) == {r \in db.stock_records : r.storage_bin = b}
RecordsOfItem(db, i) == {r \in db.stock_records : r.item = i}
RecordsOfPair(db, i, b) == {r \in db.stock_records : r.item = i /\ r.storage_bin = b}

\* StorageBin.objects.get(id=b): a Python object holding the row's fields.
LoadBin(db, b) ==
    [id |-> b, capacity |-> db.bins[b].capacity,
     current_load |-> db.bins[b].current_load, warehouse |-> db.bins[b].warehouse]

\* Item.objects.get(id=i)
LoadItem(db, i) ==
    [id |-> i, reserved_quantity |-> db.items[i].reserved_quantity,
     min_stock_level |-> db.items[i].min_stock_level]

\* InventoryAlert.objects.create(...)
CreateAlert(db, type, item, bin) ==
    [db EXCEPT !.alerts = Append(@, [alert_type |-> type, related_item |-> item, related_bin |-> bin])]

\* ---- Item ---------------------------------------------------------------
Item_total_quantity(db, i) == SumQuantity(RecordsOfItem(db, i))

\* available_quantity that forgets the reservation.
Item_available_quantity_IgnoresReserved(db, item) == Item_total_quantity(db, item.id)

\* Item.available_quantity, on an Item object (its reserved_quantity is the
\* one read when the object was fetched).
Item_available_quantity(db, item) == Item_total_quantity(db, item.id) - item.reserved_quantity

\* The two stock-level rules of Item.check_alerts, given total_quantity().
Item_low_stock_alert(db, item, total_qty) ==
    IF total_qty <= item.min_stock_level
    THEN CreateAlert(db, "WARNING", item.id, None) ELSE db

\* A critical rule that forgets to ask for stock: it fires at 0 too.
Item_critical_stock_alert_AtZero(db, item, total_qty) ==
    IF 10 * total_qty <= item.min_stock_level
    THEN CreateAlert(db, "CRITICAL", item.id, None) ELSE db

\* The critical rule: 0 < total <= 10% of the minimum level.
Item_critical_stock_alert(db, item, total_qty) ==
    IF total_qty > 0 /\ 10 * total_qty <= item.min_stock_level
    THEN CreateAlert(db, "CRITICAL", item.id, None) ELSE db

\* Item.check_alerts: stock-level rules (items here carry no expiry date).
Item_check_alerts(db, item) ==
    With(Item_total_quantity(db, item.id), LAMBDA total_qty :
         Item_critical_stock_alert(Item_low_stock_alert(db, item, total_qty), item, total_qty))

\* ---- StorageBin ---------------------------------------------------------
\* StorageBin.clean without the load check.
StorageBin_clean_NoLoadCheck(bin) == bin.capacity >= 0

\* StorageBin.clean
StorageBin_clean(bin) == bin.current_load <= bin.capacity /\ bin.capacity >= 0

\* A full rule that takes "at capacity" for "over capacity".
StorageBin_full_alert_Over(db, bin) ==
    IF bin.current_load > bin.capacity
    THEN CreateAlert(db, "CRITICAL", None, bin.id)
    ELSE IF 10 * bin.current_load >= 9 * bin.capacity
         THEN CreateAlert(db, "WARNING", None, bin.id) ELSE db

\* The full / nearly full rule of StorageBin.check_alerts.
StorageBin_full_alert(db, bin) ==
    IF bin.current_load >= bin.capacity
    THEN CreateAlert(db, "CRITICAL", None, bin.id)
    ELSE IF 10 * bin.current_load >= 9 * bin.capacity
         THEN CreateAlert(db, "WARNING", None, bin.id) ELSE db

\* The empty / nearly empty rule of StorageBin.check_alerts.
StorageBin_empty_alert(db, bin) ==
    IF bin.current_load = 0
    THEN CreateAlert(db, "WARNING", None, bin.id)
    ELSE IF 10 * bin.current_load <= bin.capacity
         THEN CreateAlert(db, "WARNING", None, bin.id) ELSE db

StorageBin_check_alerts(db, bin) == StorageBin_empty_alert(StorageBin_full_alert(db, bin), bin)

\* StorageBin.save: full_clean, write every field of the object, check_alerts.
StorageBin_save(db, bin) ==
    IF ~StorageBin_clean(bin) \/ bin.current_load < 0
    THEN Raise(db)
    ELSE [ok |-> TRUE,
          db |-> StorageBin_check_alerts(
                    [db EXCEPT !.bins[bin.id] =
                        [capacity |-> bin.capacity, current_load |-> bin.current_load,
                         warehouse |-> bin.warehouse]], bin)]

\* ---- StockRecord --------------------------------------------------------
\* StockRecord.clean, with bin the object cached as self.storage_bin.
StockRecord_clean(rec, bin) ==
    /\ rec.quantity >= 0
    /\ ~(bin.current_load - rec.quantity + rec.quantity > bin.capacity)

\* Model.validate_unique for unique_together = ('item', 'storage_bin').
StockRecord_validate_unique(db, rec) ==
    \A r \in RecordsOfPair(db, rec.item, rec.storage_bin) : r.pk = rec.pk

\* Model.save_base: UPDATE the row with this pk, INSERT when there is none.
StockRecord_write(db, rec) ==
    IF \E r \in db.stock_records : r.pk = rec.pk
    THEN [db EXCEPT !.stock_records = {r \in @ : r.pk /= rec.pk} \cup {rec}]
    ELSE [db EXCEPT !.stock_records = @ \cup {rec},
                    !.next_pk = Max(@, rec.pk + 1)]

\* The second half of StockRecord.save: with the row written, recompute
\* the cached bin object's current_load from the rows, save the bin, run
\* item.check_alerts.  Returns the record and the bin object as left.
StockRecord_after_write(db, rec, bin) ==
    Try(StorageBin_save(db, bin), LAMBDA s :
        [ok |-> TRUE, db |-> Item_check_alerts(s.db, LoadItem(s.db, rec.item)),
         rec |-> rec, bin |-> bin])

\* StockRecord.save: full_clean, then write the row (a new object takes the
\* next id of the sequence), then the recompute above.
StockRecord_save(db, rec, bin) ==
    IF ~StockRecord_clean(rec, bin) \/ ~StockRecord_validate_unique(db, rec)
    THEN Raise(db)
    ELSE With(IF rec.pk = None THEN [rec EXCEPT !.pk = db.next_pk] ELSE rec, LAMBDA saved :
         With(StockRecord_write(db, saved), LAMBDA written :
              StockRecord_after_write(
                  written, saved,
                  [bin EXCEPT !.current_load = SumQuantity(RecordsOfBin(written, bin.id))])))

\* ---- Stock-In -----------------------------------------------------------
\* A validate that rejects the request without recording the alert.
StockInSerializer_validate_NoAlert(db, item_id, storage_bin_id, quantity) ==
    IF quantity > db.bins[storage_bin_id].capacity - db.bins[storage_bin_id].current_load
    THEN [ok |-> FALSE, error |-> "capacity", db |-> db]
    ELSE [ok |-> TRUE, error |-> "none", db |-> db,
          data |-> [item |-> LoadItem(db, item_id),
                    storage_bin |-> LoadBin(db, storage_bin_id), quantity |-> quantity]]

\* StockInSerializer.validate.  The alert of a rejected request is written
\* outside any transaction.  data is validated_data.
StockInSerializer_validate(db, item_id, storage_bin_id, quantity) ==
    With(LoadBin(db, storage_bin_id), LAMBDA storage_bin :
         IF quantity > storage_bin.capacity - storage_bin.current_load
         THEN [ok |-> FALSE, error |-> "capacity",
               db |-> CreateAlert(db, "CRITICAL", item_id, storage_bin_id)]
         ELSE [ok |-> TRUE, error |-> "none", db |-> db,
               data |-> [item |-> LoadItem(db, item_id), storage_bin |-> storage_bin,
                         quantity |-> quantity]])

\* StockRecord.objects.get_or_create(item, storage_bin, defaults quantity 0).
\* A created record caches the caller's storage_bin object; a fetched one
\* loads its own on first use.
StockRecord_get_or_create(db, item_id, storage_bin) ==
    With(RecordsOfPair(db, item_id, storage_bin.id), LAMBDA found :
         IF found /= {}
         THEN [ok |-> TRUE, db |-> db, created |-> FALSE,
               rec |-> CHOOSE r \in found : TRUE,
               bin |-> LoadBin(db, storage_bin.id)]
         ELSE Try(StockRecord_save(db, [pk |-> None, item |-> item_id,
                                        storage_bin |-> storage_bin.id, quantity |-> 0],
                                   storage_bin),
                  LAMBDA s : [ok |-> TRUE, db |-> s.db, created |-> TRUE,
                              rec |-> s.rec, bin |-> s.bin]))

\* A Stock-In / Stock-Out that forgets its ledger entry.
StockMovement_create_Skipped(db, type, item_id, bin_id, quantity, receipt) == db

\* StockMovement.objects.create(...)
StockMovement_create(db, type, item_id, bin_id, quantity, receipt) ==
    [db EXCEPT !.movements = Append(@, [movement_type |-> type, item |-> item_id,
                                         storage_bin |-> bin_id, quantity |-> quantity,
                                         warehouse_receipt |-> receipt])]

\* A Stock-In that loads the bin and writes the ledger entry but never
\* touches the StockRecord.
StockInSerializer_save_body_NoRecord(db, data) ==
    Try(StorageBin_save(db, [data.storage_bin EXCEPT !.current_load = @ + data.quantity]),
        LAMBDA b :
        [ok |-> TRUE,
         db |-> StockMovement_create(b.db, "IN", data.item.id,
                                     data.storage_bin.id, data.quantity, None)])

\* The body of StockInSerializer.save, statement by statement.  After
\* stock_record.save(), storage_bin.current_load += quantity works on the
\* validated object, which after a create is the very object the record
\* has just recomputed.
StockInSerializer_save_body(db, data) ==
    Try(StockRecord_get_or_create(db, data.item.id, data.storage_bin), LAMBDA g :
    Try(StockRecord_save(g.db, [g.rec EXCEPT !.quantity = @ + data.quantity], g.bin), LAMBDA s :
    Try(StorageBin_save(s.db, [(IF g.created THEN s.bin ELSE data.storage_bin)
                                  EXCEPT !.current_load = @ + data.quantity]), LAMBDA b :
        [ok |-> TRUE,
         db |-> StockMovement_create(b.db, "IN", data.item.id,
                                     data.storage_bin.id, data.quantity, None)])))

\* The same block without transaction.atomic().
Atomic_NoRollback(db, result) == result

\* transaction.atomic(): a block that raises leaves the tables as they were.
Atomic(db, result) == IF result.ok THEN result ELSE Raise(db)

StockInSerializer_save(db, data) == Atomic(db, StockInSerializer_save_body(db, data))

\* ---- Warehouse ----------------------------------------------------------
\* Warehouse.objects.get_or_create(user, name="Default Warehouse",
\* code="WH-DEFAULT", defaults capacity 1000).  Warehouse.save runs
\* full_clean, which rejects a name or code another row already has.
Warehouse_get_or_create(db, user) ==
    IF \E w \in db.warehouses :
          w.user = user /\ w.name = DefaultWarehouse /\ w.code = DefaultWarehouse
    THEN [ok |-> TRUE, db |-> db, warehouse |-> DefaultWarehouse]
    ELSE IF \E w \in db.warehouses : w.name = DefaultWarehouse \/ w.code = DefaultWarehouse
         THEN Raise(db)
         ELSE [ok |-> TRUE,
               db |-> [db EXCEPT !.warehouses = @ \cup
                          {[name |-> DefaultWarehouse, code |-> DefaultWarehouse,
                            user |-> user, capacity |-> DefaultWarehouseCapacity]}],
               warehouse |-> DefaultWarehouse]

\* ---- WarehouseReceipt ---------------------------------------------------
\* generate_receipt_number: date stamp + 6 random hex digits.  The draw may
\* repeat a number already in the table or be a new one; all new numbers
\* are alike, so one of them stands for the rest.
ReceiptNumbers(db) ==
    ({db.receipts[k].receipt_number : k \in 1..Len(db.receipts)} \ {None})
       \cup {Len(db.receipts) + 1}

\* Model.save of a WarehouseReceipt: id = None inserts a row, and
\* receipt_number is unique and qty_remaining a PositiveIntegerField.
WarehouseReceipt_write(db, id, r) ==
    IF r.qty_remaining < 0
    THEN Raise(db)
    ELSE IF id = None
         THEN IF \E k \in 1..Len(db.receipts) :
                     db.receipts[k].receipt_number = r.receipt_number
              THEN Raise(db)
              ELSE [ok |-> TRUE, db |-> [db EXCEPT !.receipts = Append(@, r)],
                    id |-> Len(db.receipts) + 1]
         ELSE [ok |-> TRUE, db |-> [db EXCEPT !.receipts[id] = r], id |-> id]

\* WarehouseReceipt.save: refresh the snapshot fields from the related
\* objects, then write.
WarehouseReceipt_save(db, id, receipt, item) ==
    WarehouseReceipt_write(db, id,
        [receipt EXCEPT !.bin_location = receipt.issued_from_bin,
                        !.plant_site = receipt.issued_from_warehouse,
                        !.qty_remaining = Item_available_quantity(db, item)])

\* ---- Stock-Out ----------------------------------------------------------
\* A validate whose first precondition only asks that the record exists.
StockOutSerializer_validate_ExistenceOnly(db, item_id, storage_bin_id, quantity) ==
    With(RecordsOfPair(db, item_id, storage_bin_id), LAMBDA found :
         IF found = {}
         THEN [ok |-> FALSE, error |-> "insufficient",
               db |-> CreateAlert(db, "CRITICAL", item_id, storage_bin_id)]
         ELSE IF quantity > Item_available_quantity(db, LoadItem(db, item_id))
              THEN [ok |-> FALSE, error |-> "reserved",
                    db |-> CreateAlert(db, "WARNING", item_id, None)]
              ELSE [ok |-> TRUE, error |-> "none", db |-> db,
                    data |-> [item |-> LoadItem(db, item_id),
                              storage_bin |-> LoadBin(db, storage_bin_id),
                              stock_record |-> CHOOSE r \in found : TRUE,
                              quantity |-> quantity]])

\* A validate that checks the reservation before the bin's record.
StockOutSerializer_validate_ReservationFirst(db, item_id, storage_bin_id, quantity) ==
    With(RecordsOfPair(db, item_id, storage_bin_id), LAMBDA found :
         IF quantity > Item_available_quantity(db, LoadItem(db, item_id))
         THEN [ok |-> FALSE, error |-> "reserved",
               db |-> CreateAlert(db, "WARNING", item_id, None)]
         ELSE IF found = {} \/ (CHOOSE r \in found : TRUE).quantity < quantity
              THEN [ok |-> FALSE, error |-> "insufficient",
                    db |-> CreateAlert(db, "CRITICAL", item_id, storage_bin_id)]
              ELSE [ok |-> TRUE, error |-> "none", db |-> db,
                    data |-> [item |-> LoadItem(db, item_id),
                              storage_bin |-> LoadBin(db, storage_bin_id),
                              stock_record |-> CHOOSE r \in found : TRUE,
                              quantity |-> quantity]])

\* StockOutSerializer.validate: both preconditions, in order; the alert of a
\* rejected request is written outside any transaction.
StockOutSerializer_validate(db, item_id, storage_bin_id, quantity) ==
    With(RecordsOfPair(db, item_id, storage_bin_id), LAMBDA found :
         IF found = {} \/ (CHOOSE r \in found : TRUE).quantity < quantity
         THEN [ok |-> FALSE, error |-> "insufficient",
               db |-> CreateAlert(db, "CRITICAL", item_id, storage_bin_id)]
         ELSE IF quantity > Item_available_quantity(db, LoadItem(db, item_id))
              THEN [ok |-> FALSE, error |-> "reserved",
                    db |-> CreateAlert(db, "WARNING", item_id, None)]
              ELSE [ok |-> TRUE, error |-> "none", db |-> db,
                    data |-> [item |-> LoadItem(db, item_id),
                              storage_bin |-> LoadBin(db, storage_bin_id),
                              stock_record |-> CHOOSE r \in found : TRUE,
                              quantity |-> quantity]])

\* "Update stock record" that saves the record whatever its quantity.
StockOutSerializer_update_record_NoDelete(db, data) ==
    With([data.stock_record EXCEPT !.quantity = @ - data.quantity], LAMBDA stock_record :
         Try(StockRecord_save(db, stock_record, LoadBin(db, stock_record.storage_bin)),
             LAMBDA s : [ok |-> TRUE, db |-> s.db]))

\* "Update stock record" that, at 0, deletes the item's records in every bin.
StockOutSerializer_update_record_DeletesAll(db, data) ==
    With([data.stock_record EXCEPT !.quantity = @ - data.quantity], LAMBDA stock_record :
         IF stock_record.quantity = 0
         THEN [ok |-> TRUE,
               db |-> [db EXCEPT !.stock_records = {r \in @ : r.item /= stock_record.item}]]
         ELSE Try(StockRecord_save(db, stock_record, LoadBin(db, stock_record.storage_bin)),
                  LAMBDA s : [ok |-> TRUE, db |-> s.db]))

\* "Update stock record": decrement the validated StockRecord object and
\* delete it at 0, save it otherwise.
StockOutSerializer_update_record(db, data) ==
    With([data.stock_record EXCEPT !.quantity = @ - data.quantity], LAMBDA stock_record :
         IF stock_record.quantity = 0
         THEN [ok |-> TRUE,
               db |-> [db EXCEPT !.stock_records = {r \in @ : r.pk /= stock_record.pk}]]
         ELSE Try(StockRecord_save(db, stock_record, LoadBin(db, stock_record.storage_bin)),
                  LAMBDA s : [ok |-> TRUE, db |-> s.db]))

\* "Ensure storage_bin has a warehouse": give the bin object the user's
\* default warehouse and save it.
StockOutSerializer_default_warehouse(db, bin, user) ==
    Try(Warehouse_get_or_create(db, user), LAMBDA w :
    Try(StorageBin_save(w.db, [bin EXCEPT !.warehouse = w.warehouse]), LAMBDA s :
        [ok |-> TRUE, db |-> s.db, bin |-> [bin EXCEPT !.warehouse = w.warehouse]]))

\* "Update bin's current load" through storage_bin.save(): the validated
\* StorageBin object is decremented in place and saved.
StockOutSerializer_update_bin(db, data, user) ==
    With([data.storage_bin EXCEPT !.current_load = Max(0, @ - data.quantity)], LAMBDA bin :
         IF bin.warehouse = NoWarehouse
         THEN Try(StockOutSerializer_default_warehouse(db, bin, user), LAMBDA w :
              Try(StorageBin_save(w.db, w.bin), LAMBDA s :
                  [ok |-> TRUE, db |-> s.db, bin |-> w.bin]))
         ELSE Try(StorageBin_save(db, bin), LAMBDA s :
                  [ok |-> TRUE, db |-> s.db, bin |-> bin]))

\* WarehouseReceipt(...) as StockOutSerializer.save builds it.
StockOutSerializer_receipt(db, data, bin, receipt_number) ==
    [receipt_number |-> receipt_number,
     issued_from_warehouse |-> bin.warehouse,
     issued_from_bin |-> bin.id,
     item |-> data.item.id,
     quantity |-> data.quantity,
     plant_site |-> bin.warehouse,
     bin_location |-> bin.id,
     qty_picked |-> data.quantity,
     qty_remaining |-> Item_available_quantity(db, data.item),
     stock_movement |-> None]

\* receipt.stock_movement = movement; receipt.save()
StockOutSerializer_link_receipt(db, id, item) ==
    Try(WarehouseReceipt_save(db, id,
                              [db.receipts[id] EXCEPT !.stock_movement = Len(db.movements)],
                              item),
        LAMBDA f : [ok |-> TRUE, db |-> f.db])

\* The body of StockOutSerializer.save; receipt_number is the number
\* WarehouseReceipt.save generates.
StockOutSerializer_save_body(db, data, user, receipt_number) ==
    Try(StockOutSerializer_update_record(db, data), LAMBDA u :
    Try(StockOutSerializer_update_bin(u.db, data, user), LAMBDA b :
    Try(WarehouseReceipt_save(b.db, None,
                              StockOutSerializer_receipt(b.db, data, b.bin, receipt_number),
                              data.item), LAMBDA c :
        StockOutSerializer_link_receipt(
            StockMovement_create(c.db, "OUT", data.item.id, b.bin.id, data.quantity, c.id),
            c.id, data.item))))

StockOutSerializer_save(db, data, user, receipt_number) ==
    Atomic(db, StockOutSerializer_save_body(db, data, user, receipt_number))

\* ---- the views ----------------------------------------------------------
\* What a view answers: the tables it leaves and the outcome it reports.
Response(r, failure) ==
    [ok |-> r.ok, outcome |-> IF r.ok THEN "ok" ELSE failure, db |-> r.db]

\* StockInView.post: is_valid(), then save().
StockInView_post(db, i, b, q) ==
    With(StockInSerializer_validate(db, i, b, q), LAMBDA v :
         IF ~v.ok THEN Response(v, v.error)
         ELSE Response(StockInSerializer_save(v.db, v.data), "error"))

\* StockOutView.post: is_valid(), then save().
StockOutView_post(db, i, b, q, user, receipt_number) ==
    With(StockOutSerializer_validate(db, i, b, q), LAMBDA v :
         IF ~v.ok THEN Response(v, v.error)
         ELSE Response(StockOutSerializer_save(v.db, v.data, user, receipt_number), "error"))

\* ItemSerializer.validate_reserved_quantity / validate, then Item.save
\* (full_clean -> Item.clean): the reservation workflow's write.
ItemSerializer_update(db, i, reserved) ==
    IF reserved > Item_total_quantity(db, i)
    THEN Response(Raise(db), "invalid")
    ELSE [ok |-> TRUE, outcome |-> "ok",
          db |-> [db EXCEPT !.items[i].reserved_quantity = reserved]]

\* ---- initial state ------------------------------------------------------
Idle == [op |-> "idle", data |-> [quantity |-> 0], user |-> None]

NoCall ==
    [op |-> "none", item |-> None, storage_bin |-> None, quantity |-> 0,
     outcome |-> "none", created |-> FALSE, load_before |-> 0]

\* A freshly set-up installation: items and bins exist, nothing is stocked.
\* Warehouses and bins come from the warehouses and bins endpoints, which
\* let a bin be created with or without a warehouse and let any user
\* create a warehouse under any free name (users are interchangeable, so
\* the owner of a pre-existing "Default Warehouse" is user 1).
Init ==
    /\ items = [i \in Items |-> [reserved_quantity |-> 0, min_stock_level |-> i - 1]]
    /\ \E owner \in {None, 1} :
          warehouses =
             {[name |-> MainWarehouse, code |-> MainWarehouse, user |-> 1,
               capacity |-> DefaultWarehouseCapacity]}
             \cup (IF owner = None THEN {}
                   ELSE {[name |-> DefaultWarehouse, code |-> DefaultWarehouse,
                          user |-> owner, capacity |-> DefaultWarehouseCapacity]})
    /\ \E cap \in [Bins -> Capacities] :
          bins = [b \in Bins |-> [capacity |-> cap[b], current_load |-> 0,
                                  warehouse |-> IF b = 1 THEN MainWarehouse ELSE NoWarehouse]]
    /\ stock_records = {}
    /\ next_pk = 1
    /\ movements = <<>>
    /\ receipts = <<>>
    /\ alerts = <<>>
    /\ requests = [w \in Workers |-> Idle]
    /\ last = NoCall
    /\ calls = 0
    /\ successes = 0

\* ---- one call per step (no interleaving) --------------------------------
StockOps == {"stock_in", "stock_out"}

\* What a completed call leaves in "last": its arguments, its outcome,
\* whether it found no StockRecord for the pair, and the bin's current_load
\* when the call was made.
Call(op, i, b, q, outcome) ==
    [op |-> op, item |-> i, storage_bin |-> b, quantity |-> q,
     outcome |-> outcome,
     created |-> op = "stock_in" /\ RecordsOfPair(DB, i, b) = {},
     load_before |-> IF b = None THEN 0 ELSE bins[b].current_load]

\* A successful Stock-In or Stock-Out is counted.
Succeeded(op, ok) ==
    successes' = IF ok /\ op \in StockOps THEN successes + 1 ELSE successes

\* A view serves a whole request in one step and answers r.  The number
\* of calls explored is capped at MaxCalls in each action.
Respond(op, i, b, q, r) ==
    /\ Commit(r.db)
    /\ last' = Call(op, i, b, q, r.outcome)
    /\ Succeeded(op, r.ok)
    /\ calls' = calls + 1
    /\ UNCHANGED requests

StockIn(i, b, q) ==
    /\ calls < MaxCalls
    /\ Respond("stock_in", i, b, q, StockInView_post(DB, i, b, q))

StockOut(i, b, q, u) ==
    /\ calls < MaxCalls
    /\ \E n \in ReceiptNumbers(DB) :
          Respond("stock_out", i, b, q, StockOutView_post(DB, i, b, q, u, n))

UpdateItem(i, reserved) ==
    /\ calls < MaxCalls
    /\ Respond("update_item", i, None, reserved, ItemSerializer_update(DB, i, reserved))

Next ==
    \/ \E i \in Items, b \in Bins, q \in Quantities : StockIn(i, b, q)
    \/ \E i \in Items, b \in Bins, q \in Quantities, u \in Users : StockOut(i, b, q, u)
    \/ \E i \in Items, r \in 0..MaxQuantity : UpdateItem(i, r)

Spec == Init /\ [][Next]_vars

\* ---- interleaved requests -----------------------------------------------
\* Each worker serves one request at a time.  validate() runs in autocommit
\* and save() is one transaction, so a request takes two steps and other
\* requests may commit in between; the worker keeps validated_data, with
\* the model objects validate() fetched, from the first step to the second.
\* Workers are interchangeable: a new request goes to the first idle one.
FirstIdle(w) ==
    /\ requests[w].op = "idle"
    /\ \A v \in Workers : v < w => requests[v].op /= "idle"

\* is_valid(): a rejected request is answered at once, an accepted one
\* leaves its validated_data with the worker.
Validate(w, op, i, b, q, u, v) ==
    /\ Commit(v.db)
    /\ IF ~v.ok
       THEN /\ last' = Call(op, i, b, q, v.error)
            /\ UNCHANGED requests
       ELSE /\ requests' = [requests EXCEPT ![w] = [op |-> op, data |-> v.data, user |-> u]]
            /\ UNCHANGED last
    /\ calls' = calls + 1
    /\ UNCHANGED successes

\* save(): the worker's request ends with result s.
Save(w, op, s) ==
    /\ requests[w].op = op
    /\ Commit(s.db)
    /\ last' = Call(op, requests[w].data.item.id, requests[w].data.storage_bin.id,
                    requests[w].data.quantity, IF s.ok THEN "ok" ELSE "error")
    /\ Succeeded(op, s.ok)
    /\ requests' = [requests EXCEPT ![w] = Idle]
    /\ UNCHANGED calls

BeginStockIn(w, i, b, q) ==
    /\ calls < MaxCalls
    /\ FirstIdle(w)
    /\ Validate(w, "stock_in", i, b, q, None, StockInSerializer_validate(DB, i, b, q))

FinishStockIn(w) ==
    /\ requests[w].op = "stock_in"
    /\ Save(w, "stock_in", StockInSerializer_save(DB, requests[w].data))

BeginStockOut(w, i, b, q, u) ==
    /\ calls < MaxCalls
    /\ FirstIdle(w)
    /\ Validate(w, "stock_out", i, b, q, u, StockOutSerializer_validate(DB, i, b, q))

FinishStockOut(w) ==
    /\ requests[w].op = "stock_out"
    /\ \E n \in ReceiptNumbers(DB) :
          Save(w, "stock_out", StockOutSerializer_save(DB, requests[w].data, requests[w].user, n))

NextInterleaved ==
    \/ \E w \in Workers, i \in Items, b \in Bins, q \in Quantities : BeginStockIn(w, i, b, q)
    \/ \E w \in Workers : FinishStockIn(w)
    \/ \E w \in Workers, i \in Items, b \in Bins, q \in Quantities, u \in Users :
          BeginStockOut(w, i, b, q, u)
    \/ \E w \in Workers : FinishStockOut(w)
    \/ \E i \in Items, r \in 0..MaxQuantity : UpdateItem(i, r)

SpecInterleaved == Init /\ [][NextInterleaved]_vars

\* ---- the other endpoints that write StockRecord and StorageBin rows -----
\* PUT/PATCH stocks/<pk>/ (ModelViewSet.update -> serializer.save ->
\* StockRecord.save) in autocommit: what StockRecord.save wrote before it
\* raised stays written.  quantity and storage_bin are the writable fields.
StockRecordViewSet_update(db, pk, quantity, storage_bin_id) ==
    StockRecord_save(db,
                     [(CHOOSE r \in db.stock_records : r.pk = pk)
                         EXCEPT !.quantity = quantity, !.storage_bin = storage_bin_id],
                     LoadBin(db, storage_bin_id))

\* instance.delete()
StockRecord_delete(db, pk) == [db EXCEPT !.stock_records = {r \in @ : r.pk /= pk}]

\* StockRecordViewSet.perform_destroy: decrement the bin in place, save it,
\* delete the row.
StockRecordViewSet_perform_destroy(db, pk) ==
    With(CHOOSE r \in db.stock_records : r.pk = pk, LAMBDA instance :
         Try(StorageBin_save(db, [LoadBin(db, instance.storage_bin) EXCEPT
                                     !.current_load = Max(0, @ - instance.quantity)]),
             LAMBDA s : [ok |-> TRUE, db |-> StockRecord_delete(s.db, pk)]))

\* A sync that saves the bin without comparing the loads first.
StorageBinViewSet_sync_bin_AlwaysSaves(db, b) ==
    With(SumQuantity(RecordsOfBin(db, b)), LAMBDA new_load :
         Try(StorageBin_save(db, [LoadBin(db, b) EXCEPT !.current_load = new_load]),
             LAMBDA s : [ok |-> TRUE, db |-> s.db, message |-> "Bin synced"]))

\* StorageBinViewSet.sync_bin, with the message of its response.
StorageBinViewSet_sync_bin(db, b) ==
    With(SumQuantity(RecordsOfBin(db, b)), LAMBDA new_load :
         IF db.bins[b].current_load /= new_load
         THEN Try(StorageBin_save(db, [LoadBin(db, b) EXCEPT !.current_load = new_load]),
                  LAMBDA s : [ok |-> TRUE, db |-> s.db, message |-> "Bin synced"])
         ELSE [ok |-> TRUE, db |-> db, message |-> "Bin already in sync"])

\* StorageBinViewSet.perform_update with a new capacity (current_load is
\* read-only in StorageBinSerializer).
StorageBinViewSet_perform_update(db, b, capacity) ==
    StorageBin_save(db, [LoadBin(db, b) EXCEPT !.capacity = capacity])

\* The inventory part of ReceivingItem.save: find-or-create the record and
\* add the accepted quantity.
ReceivingItem_save_body(db, item_id, storage_bin_id, accepted_quantity) ==
    Try(StockRecord_get_or_create(db, item_id, LoadBin(db, storage_bin_id)), LAMBDA g :
        StockRecord_save(g.db, [g.rec EXCEPT !.quantity = @ + accepted_quantity], g.bin))

\* ReceivingSerializer.create is atomic.
ReceivingItem_save(db, item_id, storage_bin_id, accepted_quantity) ==
    Atomic(db, ReceivingItem_save_body(db, item_id, storage_bin_id, accepted_quantity))

Endpoint(op, i, b, q, result) == Respond(op, i, b, q, Response(result, "error"))

UpdateStockRecord(pk, q, b) ==
    /\ calls < MaxCalls
    /\ \E r \in stock_records : r.pk = pk
    /\ Endpoint("update_stock_record", None, b, q, StockRecordViewSet_update(DB, pk, q, b))

DestroyStockRecord(pk) ==
    /\ calls < MaxCalls
    /\ \E r \in stock_records : r.pk = pk
    /\ Endpoint("destroy_stock_record", None, None, 0,
                StockRecordViewSet_perform_destroy(DB, pk))

SyncBin(b) ==
    /\ calls < MaxCalls
    /\ Endpoint("sync_bin", None, b, 0, StorageBinViewSet_sync_bin(DB, b))

UpdateBin(b, capacity) ==
    /\ calls < MaxCalls
    /\ Endpoint("update_bin", None, b, capacity, StorageBinViewSet_perform_update(DB, b, capacity))

Receive(i, b, q) ==
    /\ calls < MaxCalls
    /\ Endpoint("receive", i, b, q, ReceivingItem_save(DB, i, b, q))

NextEndpoints ==
    \/ NextInterleaved
    \/ \E pk \in 1..MaxCalls, q \in 0..MaxQuantity, b \in Bins : UpdateStockRecord(pk, q, b)
    \/ \E pk \in 1..MaxCalls : DestroyStockRecord(pk)
    \/ \E b \in Bins : SyncBin(b)
    \/ \E b \in Bins, c \in 0..MaxCapacity : UpdateBin(b, c)
    \/ \E i \in Items, b \in Bins, q \in Quantities : Receive(i, b, q)

SpecEndpoints == Init /\ [][NextEndpoints]_vars

\* ---- the movements and receipts endpoints -------------------------------
\* Ids come from a sequence and are never reused: a row's id is its place
\* in the table, and a deleted row leaves its place empty.
DeletedMovement ==
    [movement_type |-> "deleted", item |-> None, storage_bin |-> None, quantity |-> 0,
     warehouse_receipt |-> None]

DeletedReceipt ==
    [receipt_number |-> None, issued_from_warehouse |-> NoWarehouse,
     issued_from_bin |-> None, item |-> None, quantity |-> 0, plant_site |-> NoWarehouse,
     bin_location |-> None, qty_picked |-> 0, qty_remaining |-> 0, stock_movement |-> None]

\* get_object() of the two viewsets
MovementIds(db) == {k \in 1..Len(db.movements) : db.movements[k] /= DeletedMovement}
ReceiptIds(db) == {k \in 1..Len(db.receipts) : db.receipts[k] /= DeletedReceipt}

\* StockMovement.clean
StockMovement_clean(quantity) == quantity > 0

\* POST movements/ (ModelViewSet.create -> perform_create -> serializer.save
\* -> StockMovement.save): warehouse_receipt is read-only.
StockMovementViewSet_perform_create(db, item_id, bin_id, type, quantity) ==
    IF ~StockMovement_clean(quantity) THEN Raise(db)
    ELSE [ok |-> TRUE, db |-> StockMovement_create(db, type, item_id, bin_id, quantity, None)]

\* PUT/PATCH movements/<pk>/ (ModelViewSet.update, not overridden):
\* movement_type and quantity are writable.
StockMovementViewSet_update(db, pk, type, quantity) ==
    IF ~StockMovement_clean(quantity) THEN Raise(db)
    ELSE [ok |-> TRUE,
          db |-> [db EXCEPT !.movements[pk] =
                     [@ EXCEPT !.movement_type = type, !.quantity = quantity]]]

\* StockMovement.delete(): WarehouseReceipt.stock_movement is on_delete
\* CASCADE, so the receipts referencing the movement go with it.
StockMovement_delete(db, pk) ==
    [db EXCEPT !.movements[pk] = DeletedMovement,
               !.receipts = [k \in 1..Len(db.receipts) |->
                                IF db.receipts[k].stock_movement = pk
                                THEN DeletedReceipt ELSE db.receipts[k]]]

\* DELETE movements/<pk>/ (ModelViewSet.destroy, not overridden)
StockMovementViewSet_destroy(db, pk) == [ok |-> TRUE, db |-> StockMovement_delete(db, pk)]

\* WarehouseReceiptViewSet.perform_update: quantity and qty_picked are
\* writable; serializer.save() runs WarehouseReceipt.save on the instance.
WarehouseReceiptViewSet_perform_update(db, id, quantity, qty_picked) ==
    WarehouseReceipt_save(db, id,
                          [db.receipts[id] EXCEPT !.quantity = quantity,
                                                  !.qty_picked = qty_picked],
                          LoadItem(db, db.receipts[id].item))

\* WarehouseReceipt.delete(): StockMovement.warehouse_receipt is on_delete
\* SET_NULL.
WarehouseReceipt_delete(db, id) ==
    [db EXCEPT !.receipts[id] = DeletedReceipt,
               !.movements = [k \in 1..Len(db.movements) |->
                                 IF db.movements[k].warehouse_receipt = id
                                 THEN [db.movements[k] EXCEPT !.warehouse_receipt = None]
                                 ELSE db.movements[k]]]

\* WarehouseReceiptViewSet.perform_destroy
WarehouseReceiptViewSet_perform_destroy(db, id) ==
    [ok |-> TRUE, db |-> WarehouseReceipt_delete(db, id)]

MovementTypes == {"IN", "OUT"}

CreateMovement(i, b, type, q) ==
    /\ calls < MaxCalls
    /\ Endpoint("create_movement", i, b, q,
                StockMovementViewSet_perform_create(DB, i, b, type, q))

UpdateMovement(pk, type, q) ==
    /\ calls < MaxCalls
    /\ pk \in MovementIds(DB)
    /\ Endpoint("update_movement", None, None, q, StockMovementViewSet_update(DB, pk, type, q))

DestroyMovement(pk) ==
    /\ calls < MaxCalls
    /\ pk \in MovementIds(DB)
    /\ Endpoint("destroy_movement", None, None, 0, StockMovementViewSet_destroy(DB, pk))

UpdateReceipt(id, q, picked) ==
    /\ calls < MaxCalls
    /\ id \in ReceiptIds(DB)
    /\ Endpoint("update_receipt", None, None, q,
                WarehouseReceiptViewSet_perform_update(DB, id, q, picked))

DestroyReceipt(id) ==
    /\ calls < MaxCalls
    /\ id \in ReceiptIds(DB)
    /\ Endpoint("destroy_receipt", None, None, 0,
                WarehouseReceiptViewSet_perform_destroy(DB, id))

NextLedger ==
    \/ Next
    \/ \E i \in Items, b \in Bins, t \in MovementTypes, q \in 0..MaxQuantity :
          CreateMovement(i, b, t, q)
    \/ \E pk \in 1..MaxCalls, t \in MovementTypes, q \in 0..MaxQuantity :
          UpdateMovement(pk, t, q)
    \/ \E pk \in 1..MaxCalls : DestroyMovement(pk)
    \/ \E id \in 1..MaxCalls, q \in 0..MaxQuantity, p \in 0..MaxQuantity :
          UpdateReceipt(id, q, p)
    \/ \E id \in 1..MaxCalls : DestroyReceipt(id)

SpecLedger == Init /\ [][NextLedger]_vars

\* ---- overlapping Stock-In transactions ----------------------------------
\* Between its first statement and its COMMIT a save() transaction works on
\* the rows as it read them; other transactions may commit meanwhile.
InTransaction(w) == "snapshot" \in DOMAIN requests[w]

\* A StockRecord table without the unique index on (item, storage_bin).
StockRecord_unique_together_NoIndex(db, item_id, storage_bin_id) == TRUE

\* Meta.unique_together = ('item', 'storage_bin'): the table's unique index
\* accepts the INSERT of a row for a pair that has no row.
StockRecord_unique_together(db, item_id, storage_bin_id) ==
    RecordsOfPair(db, item_id, storage_bin_id) = {}

\* The rows a list gained since the transaction began.
Appended(before, after) == SubSeq(after, Len(before) + 1, Len(after))

\* The writes of a Stock-In transaction that ran on snapshot and ended as
\* result, applied to the committed tables: its StockRecord row (a new row
\* takes the next id of the sequence; an UPDATE that finds no row becomes an
\* INSERT), the bin's row, its movement and its alerts.
Store_apply(db, snapshot, result, row) ==
    [StockRecord_write(db, IF \E r \in snapshot.stock_records : r.pk = row.pk
                           THEN row ELSE [row EXCEPT !.pk = db.next_pk])
        EXCEPT !.bins[row.storage_bin] = result.bins[row.storage_bin],
               !.movements = db.movements \o Appended(snapshot.movements, result.movements),
               !.alerts = db.alerts \o Appended(snapshot.alerts, result.alerts)]

\* The store detects a write conflict: a row the transaction writes was
\* changed by a transaction that committed after this one began.
Store_conflict(db, snapshot, item_id, storage_bin_id) ==
    \/ db.bins[storage_bin_id] /= snapshot.bins[storage_bin_id]
    \/ RecordsOfPair(db, item_id, storage_bin_id)
          /= RecordsOfPair(snapshot, item_id, storage_bin_id)

\* COMMIT of a Stock-In transaction whose save() ended as result.  detects
\* says whether the store enforces write-conflict detection.  An INSERT the
\* unique index refuses makes get_or_create fall back to get(), and save()
\* goes on with the record the other transaction committed (or, in a
\* store that keeps the transaction on its snapshot, fails).
Store_commit(db, snapshot, data, result, detects) ==
    IF ~result.ok THEN Raise(db)
    ELSE IF /\ RecordsOfPair(snapshot, data.item.id, data.storage_bin.id) = {}
            /\ ~StockRecord_unique_together(db, data.item.id, data.storage_bin.id)
         THEN IF detects THEN Raise(db) ELSE StockInSerializer_save(db, data)
         ELSE IF detects /\ Store_conflict(db, snapshot, data.item.id, data.storage_bin.id)
              THEN Raise(db)
              ELSE [ok |-> TRUE,
                    db |-> Store_apply(db, snapshot, result.db,
                              CHOOSE r \in RecordsOfPair(result.db, data.item.id,
                                                         data.storage_bin.id) : TRUE)]

\* save() enters transaction.atomic() and runs its statements.
ExecuteStockIn(w) ==
    /\ requests[w].op = "stock_in"
    /\ ~InTransaction(w)
    /\ requests' = [requests EXCEPT ![w] =
                       [op |-> "stock_in", data |-> requests[w].data,
                        user |-> requests[w].user, snapshot |-> DB]]
    /\ UNCHANGED <<tables, last, calls, successes>>

\* transaction.atomic() exits: COMMIT, or ROLLBACK if save() raised.
CommitStockIn(w) ==
    /\ requests[w].op = "stock_in"
    /\ InTransaction(w)
    /\ \E detects \in BOOLEAN :
          Save(w, "stock_in",
               Store_commit(DB, requests[w].snapshot, requests[w].data,
                            StockInSerializer_save(requests[w].snapshot, requests[w].data),
                            detects))

\* Stock that procurement receiving put in the bins before the Stock-In
\* calls under study arrive.
ReceiveEarlier(i, b, q) ==
    /\ \A w \in Workers : requests[w].op = "idle"
    /\ Receive(i, b, q)

NextOverlapped ==
    \/ \E w \in Workers, i \in Items, b \in Bins, q \in Quantities : BeginStockIn(w, i, b, q)
    \/ \E w \in Workers : ExecuteStockIn(w)
    \/ \E w \in Workers : CommitStockIn(w)
    \/ \E i \in Items, b \in Bins, q \in Quantities : ReceiveEarlier(i, b, q)

SpecOverlapped == Init /\ [][NextOverlapped]_vars

\* ---- the alert rules on their own ---------------------------------------
\* Items and bins of any stock level: the minimum stock level of item 1 and
\* the capacity of bin 1 are drawn from small sets that include the values
\* of the documented scenario (10), and bin 1 holds any quantity of item 1
\* that fits; item 2 and bin 2 are as in Init.
Levels == {0, 1, MaxLevel}
AlertCapacities == {0, MaxLevel, 2 * MaxLevel}

InitAlerts ==
    /\ \E level \in Levels :
          items = [i \in Items |->
                      [reserved_quantity |-> 0,
                       min_stock_level |-> IF i = 1 THEN level ELSE i - 1]]
    /\ warehouses = {[name |-> MainWarehouse, code |-> MainWarehouse, user |-> 1,
                      capacity |-> DefaultWarehouseCapacity]}
    /\ \E cap \in AlertCapacities, t \in 0..(MaxLevel + 1) :
          /\ t <= cap
          /\ bins = [b \in Bins |->
                        [capacity |-> IF b = 1 THEN cap ELSE MaxCapacity,
                         current_load |-> IF b = 1 THEN t ELSE 0,
                         warehouse |-> IF b = 1 THEN MainWarehouse ELSE NoWarehouse]]
          /\ stock_records = IF t = 0 THEN {}
                             ELSE {[pk |-> 1, item |-> 1, storage_bin |-> 1, quantity |-> t]}
    /\ next_pk = 2
    /\ movements = <<>>
    /\ receipts = <<>>
    /\ alerts = <<>>
    /\ requests = [w \in Workers |-> Idle]
    /\ last = NoCall
    /\ calls = 0
    /\ successes = 0

\* item.check_alerts() on a freshly fetched item.
EvaluateItemAlerts(i) ==
    /\ calls < MaxCalls
    /\ Endpoint("check_alerts", i, None, 0,
                [ok |-> TRUE, db |-> Item_check_alerts(DB, LoadItem(DB, i))])

NextAlerts ==
    \/ \E i \in Items : EvaluateItemAlerts(i)
    \/ \E b \in Bins, c \in AlertCapacities : UpdateBin(b, c)
    \/ \E pk \in 1..MaxCalls, q \in 0..MaxQuantity, b \in Bins : UpdateStockRecord(pk, q, b)

SpecAlerts == InitAlerts /\ [][NextAlerts]_vars

\* ---- deleting items ------------------------------------------------------
\* A deleted Item row leaves its id unused (min_stock_level is a
\* PositiveIntegerField, so no row has a negative one).
DeletedItem == [reserved_quantity |-> 0, min_stock_level |-> 0 - 1]

ItemExists(db, i) == db.items[i] /= DeletedItem

\* Item.delete() for each id: the rows whose ForeignKey to Item is
\* on_delete=CASCADE go with the item (StockRecord, StockMovement,
\* InventoryAlert.related_item, WarehouseReceipt.item, and the receipts of
\* the deleted movements); a surviving movement loses its link to a deleted
\* receipt (SET_NULL).  No StockRecord.delete() or StorageBin.save() runs.
Item_delete(db, ids) ==
    With({k \in 1..Len(db.receipts) :
             \/ db.receipts[k].item \in ids
             \/ /\ db.receipts[k].stock_movement /= None
                /\ db.movements[db.receipts[k].stock_movement].item \in ids},
         LAMBDA gone :
         [db EXCEPT
            !.items = [i \in DOMAIN db.items |->
                          IF i \in ids THEN DeletedItem ELSE db.items[i]],
            !.stock_records = {r \in db.stock_records : r.item \notin ids},
            !.movements = [k \in 1..Len(db.movements) |->
                              IF db.movements[k].item \in ids THEN DeletedMovement
                              ELSE IF db.movements[k].warehouse_receipt \in gone
                                   THEN [db.movements[k] EXCEPT !.warehouse_receipt = None]
                                   ELSE db.movements[k]],
            !.receipts = [k \in 1..Len(db.receipts) |->
                             IF k \in gone THEN DeletedReceipt ELSE db.receipts[k]],
            !.alerts = SelectSeq(db.alerts, LAMBDA a : a.related_item \notin ids)])

\* The check both delete endpoints make before deleting: every requested
\* item is there (get_object / "Items not found") and none has stock
\* records (instance.stock_records.exists()).
ItemViewSet_stock_check(db, ids) ==
    \A i \in ids : ItemExists(db, i) /\ RecordsOfItem(db, i) = {}

\* The check of a delete request runs in autocommit; a request that passes
\* it goes on to delete, a rejected one is answered at once.
CheckDelete(w, op, ids) ==
    /\ IF ItemViewSet_stock_check(DB, ids)
       THEN /\ requests' = [requests EXCEPT ![w] =
                               [op |-> op, data |-> [item_ids |-> ids, quantity |-> 0],
                                user |-> None]]
            /\ UNCHANGED last
       ELSE /\ last' = Call(op, None, None, Cardinality(ids), "rejected")
            /\ UNCHANGED requests
    /\ calls' = calls + 1
    /\ UNCHANGED <<tables, successes>>

\* ItemViewSet.perform_destroy, up to the stock check.  get_object answers
\* 404 for an item that is not there.
BeginDestroyItem(w, i) ==
    /\ calls < MaxCalls
    /\ FirstIdle(w)
    /\ ItemExists(DB, i)
    /\ CheckDelete(w, "destroy_item", {i})

\* ItemViewSet.bulk_delete, up to the stock check.
BeginBulkDelete(w, ids) ==
    /\ calls < MaxCalls
    /\ FirstIdle(w)
    /\ CheckDelete(w, "bulk_delete", ids)

\* The request of worker w deletes the items it checked.
Delete(w, op) ==
    /\ Commit(Item_delete(DB, requests[w].data.item_ids))
    /\ last' = Call(op, None, None, Cardinality(requests[w].data.item_ids), "ok")
    /\ requests' = [requests EXCEPT ![w] = Idle]
    /\ UNCHANGED <<calls, successes>>

\* instance.delete() of perform_destroy
FinishDestroyItem(w) ==
    /\ requests[w].op = "destroy_item"
    /\ Delete(w, "destroy_item")

\* The atomic block of bulk_delete: item.delete() for every item.
FinishBulkDelete(w) ==
    /\ requests[w].op = "bulk_delete"
    /\ Delete(w, "bulk_delete")

\* A Stock-In names an item that is there (validate fetches it).
BeginStockInItem(w, i, b, q) ==
    /\ ItemExists(DB, i)
    /\ BeginStockIn(w, i, b, q)

\* save() of a Stock-In whose item has been deleted meanwhile fails on the
\* foreign key of the StockRecord it writes.
FinishStockInItem(w) ==
    /\ requests[w].op = "stock_in"
    /\ Save(w, "stock_in",
            IF ItemExists(DB, requests[w].data.item.id)
            THEN StockInSerializer_save(DB, requests[w].data)
            ELSE Raise(DB))

NextDelete ==
    \/ \E w \in Workers, i \in Items, b \in Bins, q \in Quantities : BeginStockInItem(w, i, b, q)
    \/ \E w \in Workers : FinishStockInItem(w)
    \/ \E w \in Workers, i \in Items : BeginDestroyItem(w, i)
    \/ \E w \in Workers : FinishDestroyItem(w)
    \/ \E w \in Workers, ids \in SUBSET Items \ {{}} : BeginBulkDelete(w, ids)
    \/ \E w \in Workers : FinishBulkDelete(w)

SpecDelete == Init /\ [][NextDelete]_vars

\* ---- syncing bins that hold stock ---------------------------------------
\* Bins stocked through procurement receiving, which leaves current_load
\* equal to the sum of the records: bin b holds any quantity of item b that
\* fits, under any of the capacities.
InitSync ==
    /\ items = [i \in Items |-> [reserved_quantity |-> 0, min_stock_level |-> i - 1]]
    /\ warehouses = {[name |-> MainWarehouse, code |-> MainWarehouse, user |-> 1,
                      capacity |-> DefaultWarehouseCapacity]}
    /\ \E cap \in [Bins -> Capacities], t \in [Bins -> 0..MaxQuantity] :
          /\ bins = [b \in Bins |->
                        [capacity |-> cap[b], current_load |-> t[b],
                         warehouse |-> IF b = 1 THEN MainWarehouse ELSE NoWarehouse]]
          /\ stock_records =
                {[pk |-> b, item |-> ((b - 1) % NumItems) + 1, storage_bin |-> b,
                  quantity |-> t[b]] : b \in {c \in Bins : t[c] > 0}}
    /\ next_pk = NumBins + 1
    /\ movements = <<>>
    /\ receipts = <<>>
    /\ alerts = <<>>
    /\ requests = [w \in Workers |-> Idle]
    /\ last = NoCall
    /\ calls = 0
    /\ successes = 0

NextSync ==
    \/ \E b \in Bins : SyncBin(b)
    \/ \E i \in Items, b \in Bins, q \in Quantities : StockIn(i, b, q)
    \/ \E pk \in 1..(NumBins + MaxCalls), q \in 0..MaxQuantity, b \in Bins :
          UpdateStockRecord(pk, q, b)

SpecSync == InitSync /\ [][NextSync]_vars

\* ---- properties ---------------------------------------------------------
BinSum(b) == SumQuantity({r \in stock_records : r.storage_bin = b})
RowsOfPair(rows, i, b) == {r \in rows : r.item = i /\ r.storage_bin = b}
PairRecords(i, b) == RowsOfPair(stock_records, i, b)
PairQuantity(i, b) == SumQuantity(PairRecords(i, b))
ItemTotal(i) == SumQuantity({r \in stock_records : r.item = i})
FreeSpace(b) == bins[b].capacity - bins[b].current_load

\* The step completes a call of the given kind: a whole call in one step,
\* or the save step of a request a worker had validated.
Completes(op) ==
    /\ last'.op = op
    /\ \/ calls' = calls + 1 /\ requests' = requests
       \/ \E w \in Workers : requests[w].op = op /\ requests'[w].op = "idle"

\* C1: after any sequence of Stock-In and Stock-Out calls from a consistent
\* state, every bin's current_load equals the sum of the quantities of its
\* StockRecords, whether Stock-In created the record or updated it.
C1_LoadEqualsSum == \A b \in Bins : bins[b].current_load = BinSum(b)

\* C4: a Stock-In of q with 1 <= q <= capacity - current_load succeeds and
\* commits quantity = previous quantity + q and current_load = previous
\* current_load + q (Scenario A: q = capacity on an empty bin).
C4_StockInWithinFreeSpace ==
    [][(Completes("stock_in") /\ last'.quantity <= FreeSpace(last'.storage_bin))
        => /\ last'.outcome = "ok"
           /\ SumQuantity(RowsOfPair(stock_records', last'.item, last'.storage_bin))
                 = PairQuantity(last'.item, last'.storage_bin) + last'.quantity
           /\ bins'[last'.storage_bin].current_load
                 = bins[last'.storage_bin].current_load + last'.quantity]_vars

\* C5: for a pair with no StockRecord, a successful Stock-In of q followed
\* immediately by a Stock-Out of the same q on the same pair leaves the
\* bin's current_load as it was before the Stock-In and no StockRecord.
C5_InThenOutRestores ==
    [][(/\ last.op = "stock_in" /\ last.outcome = "ok" /\ last.created
        /\ Completes("stock_out") /\ last'.outcome = "ok"
        /\ last'.item = last.item /\ last'.storage_bin = last.storage_bin
        /\ last'.quantity = last.quantity)
        => /\ bins'[last.storage_bin].current_load = last.load_before
           /\ RowsOfPair(stock_records', last.item, last.storage_bin) = {}]_vars

\* C6: a Stock-In or Stock-Out that fails after its save step has begun
\* leaves StockRecords, bin loads, movements and receipts exactly as they
\* were before the call.
C6_FailedCallCommitsNothing ==
    [][((Completes("stock_in") \/ Completes("stock_out")) /\ last'.outcome = "error")
        => UNCHANGED <<stock_records, bins, movements, receipts>>]_vars

\* A Stock-In got past validate and then failed inside save.
C6_Witness == last.op = "stock_in" /\ last.outcome = "error"

\* C7: a Stock-In with quantity > capacity - current_load fails with the
\* capacity error, commits exactly one new CRITICAL alert for that bin and
\* item, and leaves StockRecords, bins and movements unchanged.
C7_CapacityRejection ==
    [][(Completes("stock_in") /\ last'.quantity > FreeSpace(last'.storage_bin))
        => /\ last'.outcome = "capacity"
           /\ alerts' = Append(alerts, [alert_type |-> "CRITICAL",
                                        related_item |-> last'.item,
                                        related_bin |-> last'.storage_bin])
           /\ UNCHANGED <<stock_records, bins, movements>>]_vars

C7_Witness ==
    /\ last.op = "stock_in" /\ last.outcome = "capacity"
    /\ stock_records /= {}

\* C8: a Stock-Out of more than the (item, bin) StockRecord holds, or with
\* no such record, fails with the insufficient-stock error, commits exactly
\* one new CRITICAL alert for that bin and item, and changes nothing else.
C8_InsufficientStockRejection ==
    [][(Completes("stock_out")
        /\ PairQuantity(last'.item, last'.storage_bin) < last'.quantity)
        => /\ last'.outcome = "insufficient"
           /\ alerts' = Append(alerts, [alert_type |-> "CRITICAL",
                                        related_item |-> last'.item,
                                        related_bin |-> last'.storage_bin])
           /\ UNCHANGED <<stock_records, bins, movements, receipts>>]_vars

\* More was requested than a record that exists holds.
C8_Witness ==
    /\ last.op = "stock_out" /\ last.outcome = "insufficient"
    /\ PairRecords(last.item, last.storage_bin) /= {}

\* C9: a Stock-Out the bin's record can cover but which exceeds the item's
\* available_quantity (total over all bins - reserved) fails with the
\* reservation error, commits exactly one new WARNING alert for the item,
\* and changes nothing else.
C9_ReservationRejection ==
    [][(Completes("stock_out")
        /\ PairQuantity(last'.item, last'.storage_bin) >= last'.quantity
        /\ last'.quantity > ItemTotal(last'.item) - items[last'.item].reserved_quantity)
        => /\ last'.outcome = "reserved"
           /\ alerts' = Append(alerts, [alert_type |-> "WARNING",
                                        related_item |-> last'.item,
                                        related_bin |-> None])
           /\ UNCHANGED <<stock_records, bins, movements, receipts>>]_vars

C9_Witness == last.op = "stock_out" /\ last.outcome = "reserved"

\* C10: the number of StockMovement rows equals the number of successful
\* Stock-In / Stock-Out calls: a successful call appends exactly one
\* movement with its direction, item, bin and quantity; any other call
\* appends none.
C10_MovementPerSuccessfulCall ==
    /\ [](Len(movements) = successes)
    /\ [][calls' = calls + 1 =>
            IF last'.op \in StockOps /\ last'.outcome = "ok"
            THEN /\ Len(movements') = Len(movements) + 1
                 /\ SubSeq(movements', 1, Len(movements)) = movements
                 /\ LET m == movements'[Len(movements')]
                    IN /\ m.movement_type = (IF last'.op = "stock_in" THEN "IN" ELSE "OUT")
                       /\ m.item = last'.item
                       /\ m.storage_bin = last'.storage_bin
                       /\ m.quantity = last'.quantity
            ELSE movements' = movements]_vars

\* Two calls succeeded and a third one was rejected or failed.
C10_Witness == successes = 2 /\ calls = 3 /\ last.outcome \notin {"ok", "none"}

\* C3: after any sequence of Stock-In and Stock-Out calls, with the validate
\* and save steps of concurrent calls interleaved, every committed
\* StockRecord has quantity >= 1.
C3_QuantityAtLeastOne == \A r \in stock_records : r.quantity >= 1

\* C2: in every committed state reachable through Stock-In, Stock-Out,
\* direct StockRecord writes, bin sync and bin updates (capacity changes
\* included), every bin has current_load <= capacity.
C2_LoadWithinCapacity == \A b \in Bins : bins[b].current_load <= bins[b].capacity

\* A Stock-Out took the last units of a record while another request was
\* between validate and save.
C3_Witness ==
    /\ last.op = "stock_out" /\ last.outcome = "ok"
    /\ PairRecords(last.item, last.storage_bin) = {}
    /\ \E w \in Workers : requests[w].op /= "idle"

\* A capacity below the bin's load was requested and refused.
C2_Witness ==
    /\ last.op = "update_bin" /\ last.outcome = "error"
    /\ bins[last.storage_bin].current_load > last.quantity

\* C11: once a StockMovement row exists, no operation the system exposes
\* changes any of its fields or deletes it: every step leaves every
\* existing row of the movements table as it was.
C11_MovementsImmutable ==
    [][\A k \in MovementIds(DB) :
          /\ k <= Len(movements')
          /\ movements'[k] = movements[k]]_vars

RECURSIVE Replay(_, _, _)
\* The quantity of a pair derived from the ledger: its IN movements minus
\* its OUT movements.
Replay(ms, i, b) ==
    IF ms = <<>> THEN 0
    ELSE (IF Head(ms).item = i /\ Head(ms).storage_bin = b
          THEN (IF Head(ms).movement_type = "IN" THEN Head(ms).quantity
                ELSE IF Head(ms).movement_type = "OUT" THEN 0 - Head(ms).quantity
                ELSE 0)
          ELSE 0) + Replay(Tail(ms), i, b)

\* C12: after any sequential run of Stock-In and Stock-Out calls from an
\* empty ledger and no StockRecords, each pair's StockRecord quantity (0
\* without a record) equals its IN movements minus its OUT movements.
C12_RecordEqualsReplay ==
    \A i \in Items, b \in Bins : PairQuantity(i, b) = Replay(movements, i, b)

\* A pair that has been stocked in and partly stocked out.
C12_Witness ==
    \E i \in Items, b \in Bins :
       /\ PairQuantity(i, b) >= 1
       /\ \E k \in 1..Len(movements) :
             /\ movements[k].movement_type = "OUT"
             /\ movements[k].item = i /\ movements[k].storage_bin = b

ReceiptsOf(k) == {r \in ReceiptIds(DB) : receipts[r].stock_movement = k}

\* C14: in every committed state reachable through Stock-Out and the
\* movements and receipts endpoints, every OUT movement is referenced by
\* exactly one receipt and links back to it, and every receipt references
\* exactly one movement, which is an OUT movement.
C14_OneReceiptPerOutMovement ==
    /\ \A k \in MovementIds(DB) :
          movements[k].movement_type = "OUT" =>
             /\ Cardinality(ReceiptsOf(k)) = 1
             /\ movements[k].warehouse_receipt \in ReceiptsOf(k)
    /\ \A r \in ReceiptIds(DB) :
          /\ receipts[r].stock_movement \in MovementIds(DB)
          /\ movements[receipts[r].stock_movement].movement_type = "OUT"

\* C15: every successful Stock-Out of q adds exactly one WarehouseReceipt,
\* with qty_picked = q and qty_remaining = the item's available quantity
\* (total over all bins minus reserved) after the call's decrement,
\* whatever other requests were served while the call was in progress.
C15_ReceiptSnapshot ==
    [][(Completes("stock_out") /\ last'.outcome = "ok")
        => /\ Len(receipts') = Len(receipts) + 1
           /\ \A r \in 1..Len(receipts) : receipts'[r] = receipts[r]
           /\ receipts'[Len(receipts')].item = last'.item
           /\ receipts'[Len(receipts')].qty_picked = last'.quantity
           /\ receipts'[Len(receipts')].qty_remaining =
                 SumQuantity({r \in stock_records' : r.item = last'.item})
                    - items'[last'.item].reserved_quantity]_vars

\* The snapshot fields of a receipt.
Snapshot(receipt) ==
    [quantity |-> receipt.quantity, qty_picked |-> receipt.qty_picked,
     qty_remaining |-> receipt.qty_remaining, bin_location |-> receipt.bin_location,
     plant_site |-> receipt.plant_site]

\* C16: once its Stock-Out has committed, a WarehouseReceipt keeps its
\* snapshot fields (quantity, qty_picked, qty_remaining, bin_location,
\* plant_site) and is never deleted, whatever is done later, saves through
\* the receipts endpoint included.
C16_ReceiptsImmutable ==
    [][\A r \in ReceiptIds(DB) :
          /\ r \in 1..Len(receipts')
          /\ receipts'[r] /= DeletedReceipt
          /\ Snapshot(receipts'[r]) = Snapshot(receipts[r])]_vars

\* C17: in every committed state reachable through Stock-In, Stock-Out,
\* reservation updates and direct stock-record updates or deletions, every
\* item has reserved_quantity <= total_quantity, also when a reservation
\* update falls between the validate and the save of a Stock-Out.
C17_ReservedWithinTotal ==
    \A i \in Items : items[i].reserved_quantity <= ItemTotal(i)

\* No request is between its validate and its save.
Quiescent == \A w \in Workers : requests[w].op = "idle"

\* C19: when concurrent Stock-In and Stock-Out calls on a pair, whose
\* validate and save steps interleave (each save one transaction), have all
\* completed, the pair's StockRecord quantity is what the successful calls
\* give in a serial order: its IN movements minus its OUT movements, no
\* update lost.
C19_NoLostUpdate ==
    Quiescent => \A i \in Items, b \in Bins : PairQuantity(i, b) = Replay(movements, i, b)

\* C18: in every committed state there is at most one StockRecord per
\* (item, bin) pair, however concurrent Stock-In calls that each found no
\* record for the pair interleave.
C18_OneRecordPerPair ==
    \A i \in Items, b \in Bins : Cardinality(PairRecords(i, b)) <= 1

\* A Stock-In transaction that found no record for its pair is still open
\* while another Stock-In has committed a record for that pair.
C18_Witness ==
    \E w \in Workers :
       /\ InTransaction(w)
       /\ RecordsOfPair(requests[w].snapshot, requests[w].data.item.id,
                        requests[w].data.storage_bin.id) = {}
       /\ PairRecords(requests[w].data.item.id, requests[w].data.storage_bin.id) /= {}
       /\ last.op = "stock_in" /\ last.outcome = "ok"
       /\ last.item = requests[w].data.item.id
       /\ last.storage_bin = requests[w].data.storage_bin.id

\* C20: however the steps of concurrent Stock-In calls on a bin interleave,
\* overlapping transactions included, the StockRecord quantities of the
\* bin never sum to more than its capacity in a committed state.
C20_SumWithinCapacity == \A b \in Bins : BinSum(b) <= bins[b].capacity

\* The request of worker w was validated before a call that has since
\* committed a change to its bin: the two calls overlap.
Overlapped(w) ==
    /\ requests[w].op \in StockOps
    /\ requests[w].data.storage_bin.current_load
          /= bins[requests[w].data.storage_bin.id].current_load

\* C21: when two concurrent stock operations on different items in the same
\* bin, their validate and save steps interleaved, have both finished, the
\* bin's current_load equals the sum of its StockRecord quantities.
C21_DifferentItemsSameBin ==
    [][\A w \in Workers :
          (/\ Overlapped(w)
           /\ last.op \in StockOps /\ last.outcome = "ok"
           /\ last.storage_bin = requests[w].data.storage_bin.id
           /\ last.item /= requests[w].data.item.id
           /\ requests'[w].op = "idle" /\ last'.outcome = "ok")
          => bins'[last.storage_bin].current_load
                = SumQuantity({r \in stock_records' : r.storage_bin = last.storage_bin})]_vars

\* C22: a Stock-Out that passes both preconditions on a bin with no
\* warehouse (and with no receipt yet whose number it could repeat)
\* succeeds for any user, whether or not the default warehouse exists;
\* afterwards the bin is attached to the default warehouse and the receipt
\* names it.
C22_DefaultWarehouseFallback ==
    [][(/\ Completes("stock_out")
        /\ bins[last'.storage_bin].warehouse = NoWarehouse
        /\ PairQuantity(last'.item, last'.storage_bin) >= last'.quantity
        /\ last'.quantity <= ItemTotal(last'.item) - items[last'.item].reserved_quantity
        /\ receipts = <<>>)
        => /\ last'.outcome = "ok"
           /\ bins'[last'.storage_bin].warehouse = DefaultWarehouse
           /\ Len(receipts') = 1
           /\ receipts'[1].issued_from_warehouse = DefaultWarehouse
           /\ receipts'[1].plant_site = DefaultWarehouse]_vars

\* The alerts the step added.
NewAlerts == SubSeq(alerts', Len(alerts) + 1, Len(alerts'))

\* C23: each evaluation of an item's stock alert rules with total quantity
\* t and minimum level m creates exactly one WARNING low-stock alert iff
\* t <= m, exactly one CRITICAL alert iff 0 < t and 10*t <= m, and nothing
\* else (m = 10: t = 10 gives a WARNING only, t = 1 a WARNING and a
\* CRITICAL).
C23_ItemAlertRules ==
    [][(Completes("check_alerts"))
        => NewAlerts =
              (IF ItemTotal(last'.item) <= items[last'.item].min_stock_level
               THEN <<[alert_type |-> "WARNING", related_item |-> last'.item,
                       related_bin |-> None]>>
               ELSE <<>>)
              \o (IF /\ 0 < ItemTotal(last'.item)
                     /\ 10 * ItemTotal(last'.item) <= items[last'.item].min_stock_level
                  THEN <<[alert_type |-> "CRITICAL", related_item |-> last'.item,
                          related_bin |-> None]>>
                  ELSE <<>>)]_vars

\* The rules were evaluated for an item with minimum level 10 that has one
\* unit left: a WARNING and a CRITICAL alert are the last two alerts.
C23_Witness ==
    /\ last.op = "check_alerts"
    /\ items[last.item].min_stock_level = MaxLevel
    /\ ItemTotal(last.item) = 1
    /\ Len(alerts) >= 2
    /\ alerts[Len(alerts) - 1].alert_type = "WARNING"
    /\ alerts[Len(alerts)].alert_type = "CRITICAL"

\* How many of the alerts the step added are of this type and about bin b.
NewBinAlerts(type, b) ==
    Cardinality({k \in 1..Len(NewAlerts) :
                    /\ NewAlerts[k].alert_type = type
                    /\ NewAlerts[k].related_bin = b
                    /\ NewAlerts[k].related_item = None})

One(holds) == IF holds THEN 1 ELSE 0

\* The step is a bin write through the bins endpoint that was accepted.
BinWritten == Completes("update_bin") /\ last'.outcome = "ok"

\* C24 as stated: every bin write evaluates the four bin alert rules
\* independently and each rule that holds adds exactly one alert: CRITICAL
\* when current_load >= capacity, WARNING when 10*current_load >=
\* 9*capacity, WARNING when current_load = 0, WARNING when 0 < current_load
\* and 10*current_load <= capacity.
C24_RulesIndependent ==
    [][BinWritten =>
          LET b == last'.storage_bin
              load == bins'[b].current_load
              capacity == bins'[b].capacity
          IN /\ NewBinAlerts("CRITICAL", b) = One(load >= capacity)
             /\ NewBinAlerts("WARNING", b) =
                   One(10 * load >= 9 * capacity) + One(load = 0)
                      + One(0 < load /\ 10 * load <= capacity)
             /\ Len(NewAlerts) = NewBinAlerts("CRITICAL", b) + NewBinAlerts("WARNING", b)]_vars

\* C24 as amended: the nearly-full WARNING is raised only below capacity
\* (a full bin gets the CRITICAL alert alone); the other three rules are as
\* stated.
C24_BinAlertRules ==
    [][BinWritten =>
          LET b == last'.storage_bin
              load == bins'[b].current_load
              capacity == bins'[b].capacity
          IN /\ NewBinAlerts("CRITICAL", b) = One(load >= capacity)
             /\ NewBinAlerts("WARNING", b) =
                   One(load < capacity /\ 10 * load >= 9 * capacity) + One(load = 0)
                      + One(0 < load /\ 10 * load <= capacity)
             /\ Len(NewAlerts) = NewBinAlerts("CRITICAL", b) + NewBinAlerts("WARNING", b)]_vars

\* A full bin with stock in it was written and got the CRITICAL alert
\* alone.
C24_Witness ==
    /\ last.op = "update_bin" /\ last.outcome = "ok"
    /\ bins[last.storage_bin].current_load = bins[last.storage_bin].capacity
    /\ bins[last.storage_bin].capacity > 0
    /\ alerts = <<[alert_type |-> "CRITICAL", related_item |-> None,
                   related_bin |-> last.storage_bin]>>

\* seq holds block as a run of consecutive rows.
Contains(seq, block) ==
    \E k \in 0..(Len(seq) - Len(block)) : SubSeq(seq, k + 1, k + Len(block)) = block

\* The alert rows the item rules give for item i in the state the step
\* reaches.
ItemAlertsAfter(i) ==
    LET t == SumQuantity({r \in stock_records' : r.item = i})
    IN (IF t <= items'[i].min_stock_level
        THEN <<[alert_type |-> "WARNING", related_item |-> i, related_bin |-> None]>>
        ELSE <<>>)
       \o (IF 0 < t /\ 10 * t <= items'[i].min_stock_level
           THEN <<[alert_type |-> "CRITICAL", related_item |-> i, related_bin |-> None]>>
           ELSE <<>>)

\* The alert rows the bin rules give for bin b in the state the step
\* reaches.
BinAlertsAfter(b) ==
    LET load == bins'[b].current_load
        capacity == bins'[b].capacity
    IN (IF load >= capacity
        THEN <<[alert_type |-> "CRITICAL", related_item |-> None, related_bin |-> b]>>
        ELSE IF 10 * load >= 9 * capacity
             THEN <<[alert_type |-> "WARNING", related_item |-> None, related_bin |-> b]>>
             ELSE <<>>)
       \o (IF load = 0 \/ 10 * load <= capacity
           THEN <<[alert_type |-> "WARNING", related_item |-> None, related_bin |-> b]>>
           ELSE <<>>)

\* C25: every successful Stock-In and Stock-Out, a Stock-Out that removes
\* the last units of its record included, evaluates the item's alert rules
\* against the item's total after the call and the bin's alert rules
\* against the bin's current_load after the call: the alerts those rules
\* give are among the alerts the call adds.
C25_AlertsReevaluated ==
    [][((Completes("stock_in") \/ Completes("stock_out")) /\ last'.outcome = "ok")
        => /\ Contains(NewAlerts, ItemAlertsAfter(last'.item))
           /\ Contains(NewAlerts, BinAlertsAfter(last'.storage_bin))]_vars

\* C26: no single or bulk delete removes an item that has a StockRecord at
\* the moment of deletion, also when a Stock-In for the item commits
\* between the request's stock check and its delete; and a bulk delete in
\* which a requested id is missing or has stock records deletes no item.
C26_NoStockedItemDeleted ==
    [][/\ \A i \in Items :
             (ItemExists(DB, i) /\ items'[i] = DeletedItem) => RecordsOfItem(DB, i) = {}
       /\ \A w \in Workers :
             (/\ requests[w].op = "bulk_delete"
              /\ requests'[w].op = "idle"
              /\ \E i \in requests[w].data.item_ids :
                    ~ItemExists(DB, i) \/ RecordsOfItem(DB, i) /= {})
             => items' = items
       /\ (calls' = calls + 1 /\ last'.op = "bulk_delete" /\ last'.outcome = "rejected")
             => items' = items]_vars

\* C27: Stock-Out checks its preconditions in order: a request for more
\* than the bin's record holds and more than the item's available quantity
\* is rejected with the insufficient-stock error, and the CRITICAL alert is
\* the only alert created (no reservation WARNING).
C27_PreconditionsInOrder ==
    [][(/\ Completes("stock_out")
        /\ last'.quantity > PairQuantity(last'.item, last'.storage_bin)
        /\ last'.quantity > ItemTotal(last'.item) - items[last'.item].reserved_quantity)
        => /\ last'.outcome = "insufficient"
           /\ NewAlerts = <<[alert_type |-> "CRITICAL", related_item |-> last'.item,
                             related_bin |-> last'.storage_bin]>>]_vars

\* A Stock-Out was rejected for a bin that holds too little of an item
\* whose stock elsewhere would cover the request but is reserved.
C27_Witness ==
    /\ last.op = "stock_out" /\ last.outcome = "insufficient"
    /\ last.quantity > PairQuantity(last.item, last.storage_bin)
    /\ last.quantity <= ItemTotal(last.item)
    /\ last.quantity > ItemTotal(last.item) - items[last.item].reserved_quantity

\* C28: in any sequential run of Stock-In and Stock-Out calls from a
\* consistent state, every bin has (sum of its StockRecord quantities) <=
\* current_load <= capacity in every committed state: the counter never
\* under-reports the contents.
C28_SumWithinLoadWithinCapacity ==
    \A b \in Bins : BinSum(b) <= bins[b].current_load /\ bins[b].current_load <= bins[b].capacity

\* After a Stock-Out the bin still holds stock and its counter reports
\* more than it holds.
C28_Witness ==
    /\ last.op = "stock_out" /\ last.outcome = "ok"
    /\ BinSum(last.storage_bin) > 0
    /\ bins[last.storage_bin].current_load > BinSum(last.storage_bin)

\* C29: a successful bin sync sets current_load to the sum of the bin's
\* StockRecord quantities whatever the counter was, and is idempotent: a
\* second sync right after it changes no state and reports the bin as
\* already in sync; a sync whose recomputed load exceeds capacity fails and
\* leaves current_load unchanged.
C29_SyncIdempotent ==
    [][Completes("sync_bin") =>
          /\ BinSum(last'.storage_bin) > bins[last'.storage_bin].capacity
                => last'.outcome = "error"
          /\ IF last'.outcome = "ok"
             THEN /\ bins'[last'.storage_bin].current_load = BinSum(last'.storage_bin)
                  /\ stock_records' = stock_records
                  /\ StorageBinViewSet_sync_bin(DB', last'.storage_bin).ok
                  /\ StorageBinViewSet_sync_bin(DB', last'.storage_bin).db = DB'
                  /\ StorageBinViewSet_sync_bin(DB', last'.storage_bin).message
                        = "Bin already in sync"
             ELSE bins' = bins]_vars

\* A sync corrected a counter that was off.
C29_Witness ==
    /\ last.op = "sync_bin" /\ last.outcome = "ok"
    /\ last.load_before /= bins[last.storage_bin].current_load

\* The StockRecords of every pair but (i, b).
OtherRecords(rows, i, b) == {r \in rows : ~(r.item = i /\ r.storage_bin = b)}

\* C30: a Stock-In or Stock-Out on (item i, bin b) leaves unchanged every
\* StockRecord other than the one for (i, b), every bin other than b, the
\* reserved_quantity of the items, and every StockMovement and
\* WarehouseReceipt row that existed before it.
C30_Frame ==
    [][(Completes("stock_in") \/ Completes("stock_out"))
        => /\ OtherRecords(stock_records', last'.item, last'.storage_bin)
                 = OtherRecords(stock_records, last'.item, last'.storage_bin)
           /\ \A c \in Bins \ {last'.storage_bin} : bins'[c] = bins[c]
           /\ \A i \in Items : items'[i].reserved_quantity = items[i].reserved_quantity
           /\ Len(movements') >= Len(movements)
           /\ SubSeq(movements', 1, Len(movements)) = movements
           /\ Len(receipts') >= Len(receipts)
           /\ SubSeq(receipts', 1, Len(receipts)) = receipts]_vars

\* A Stock-Out took the last units of a record while the item has stock
\* in another bin and the other bin is loaded.
C30_Witness ==
    /\ last.op = "stock_out" /\ last.outcome = "ok"
    /\ PairRecords(last.item, last.storage_bin) = {}
    /\ \E r \in stock_records :
          /\ r.item = last.item
          /\ bins[r.storage_bin].current_load > 0

====
